---- MODULE Spec2Model ----
(***************************************************************************)
(* Expense tracker (remote_mcp_server.py): the expense ledger, the budget  *)
(* store with its threshold evaluation, and the recurring definitions.     *)
(*                                                                         *)
(* Text values that the code compares as text (dates) are sequences of     *)
(* character codes, compared as SQLite compares TEXT (bytewise).  Money is *)
(* counted in hundredths (cents) and an alert threshold in hundredths      *)
(* (0.8 is 80), so that the REAL arithmetic of the code is exact integer   *)
(* arithmetic here; binary rounding of floating point is not modelled.     *)
(* An Optional argument is <<>> (None) or <<v>>.                           *)
(***************************************************************************)
EXTENDS Integers, Sequences, FiniteSets, TLC

VARIABLES
    expenses,   \* table expenses: id -> row
    exp_seq,    \* sqlite_sequence entry of expenses (largest id ever used)
    budgets,    \* table budgets: a set of rows, each with its id
    bud_seq,    \* sqlite_sequence entry of budgets
    recurring,  \* table recurring_expenses: id -> row
    rec_seq,    \* sqlite_sequence entry of recurring_expenses
    call,       \* the name of the last tool called
    response,   \* what that call returned
    issued,     \* history: the expense ids handed out, in order
    deleted,    \* history: the ids removed by a successful delete_expense(id=X)
    request     \* a call in flight: a delete_expense call as received (its
                \* arguments, and whether it is still to be served), or an
                \* add_expense call that has committed its row and has yet to
                \* read the spend back, or an update_expense call as received

vars == <<expenses, exp_seq, budgets, bud_seq, recurring, rec_seq,
          call, response, issued, deleted, request>>

-----------------------------------------------------------------------------
(* Optional values and text *)

None == <<>>
Some(x) == <<x>>
IsNone(o) == o = <<>>
Val(o) == o[1]

Min(a, b) == IF a <= b THEN a ELSE b

\* str[:n]
Prefix(s, n) == SubSeq(s, 1, Min(n, Len(s)))

\* str.endswith(suffix)
EndsWith(s, suffix) ==
    /\ Len(s) >= Len(suffix)
    /\ SubSeq(s, Len(s) - Len(suffix) + 1, Len(s)) = suffix

\* a < b for TEXT values under SQLite's BINARY collation (memcmp, then length)
TextLT(a, b) ==
    \/ \E i \in 1..Min(Len(a), Len(b)) :
          /\ a[i] < b[i]
          /\ \A j \in 1..(i - 1) : a[j] = b[j]
    \/ /\ Len(a) < Len(b)
       /\ \A j \in 1..Len(a) : a[j] = b[j]

TextLE(a, b) == a = b \/ TextLT(a, b)

\* x BETWEEN lo AND hi
Between(x, lo, hi) == TextLE(lo, x) /\ TextLE(x, hi)

Dash == 45
IsDigit(c) == c \in 48..57
Digit(c) == c - 48

-----------------------------------------------------------------------------
(* Calendar *)

IsLeap(year) == year % 4 = 0 /\ (year % 100 # 0 \/ year % 400 = 0)

\* the day count datetime applies when it builds the date strptime parsed
DaysInMonth(year, month) ==
    IF month = 2 THEN (IF IsLeap(year) THEN 29 ELSE 28)
    ELSE IF month \in {4, 6, 9, 11} THEN 30
    ELSE 31

\* %m of strptime: 1[0-2]|0[1-9]|[1-9]
MonthField(t) ==
    \/ /\ Len(t) = 2
       /\ \/ t[1] = 49 /\ t[2] \in 48..50
          \/ t[1] = 48 /\ t[2] \in 49..57
    \/ Len(t) = 1 /\ t[1] \in 49..57

\* %d of strptime: 3[0-1]|[1-2]\d|0[1-9]|[1-9]| [1-9]
DayField(t) ==
    \/ /\ Len(t) = 2
       /\ \/ t[1] = 51 /\ t[2] \in 48..49
          \/ t[1] \in 49..50 /\ IsDigit(t[2])
          \/ t[1] = 48 /\ t[2] \in 49..57
          \/ t[1] = 32 /\ t[2] \in 49..57
    \/ Len(t) = 1 /\ t[1] \in 49..57

FieldValue(t) ==
    IF Len(t) = 1 THEN Digit(t[1])
    ELSE (IF t[1] = 32 THEN 0 ELSE 10 * Digit(t[1])) + Digit(t[2])

\* datetime.strptime(date_str, "%Y-%m-%d") succeeds: four digits of year, the
\* month field, the day field, and a date that exists (year 1 at least)
validate_date(s) ==
    \E ml \in {1, 2}, dl \in {1, 2} :
        /\ Len(s) = 4 + 1 + ml + 1 + dl
        /\ \A i \in 1..4 : IsDigit(s[i])
        /\ s[5] = Dash
        /\ s[6 + ml] = Dash
        /\ MonthField(SubSeq(s, 6, 5 + ml))
        /\ DayField(SubSeq(s, 7 + ml, 6 + ml + dl))
        /\ LET year == 1000 * Digit(s[1]) + 100 * Digit(s[2])
                       + 10 * Digit(s[3]) + Digit(s[4])
               month == FieldValue(SubSeq(s, 6, 5 + ml))
               day == FieldValue(SubSeq(s, 7 + ml, 6 + ml + dl))
           IN  year >= 1 /\ day <= DaysInMonth(year, month)

\* int(year_month[:4])
YearOf(ym) ==
    1000 * Digit(ym[1]) + 100 * Digit(ym[2]) + 10 * Digit(ym[3]) + Digit(ym[4])

\* the last day of the month window, from the text of the year-month key
LastDay(year_month) ==
    IF EndsWith(year_month, <<48, 50>>)
    THEN (IF IsLeap(YearOf(year_month)) THEN <<50, 57>> ELSE <<50, 56>>)
    ELSE IF \E m \in {<<48, 52>>, <<48, 54>>, <<48, 57>>, <<49, 49>>} :
                EndsWith(year_month, m)
         THEN <<51, 48>>
         ELSE <<51, 49>>

MonthStart(year_month) == year_month \o <<Dash, 48, 49>>
MonthEnd(year_month) == year_month \o <<Dash>> \o LastDay(year_month)

-----------------------------------------------------------------------------
(* Taxonomy and validation *)

\* the content of categories.json: category -> its subcategories
Categories ==
    [c \in {"food", "transport"} |->
        IF c = "food" THEN {"groceries", "dining"} ELSE {"fuel"}]

validate_amount_nonneg(amount) == amount >= 0

validate_amount_any(amount) == TRUE

\* float(amount) > 0
validate_amount(amount) == amount > 0

\* valid iff the category is known and the subcategory is empty or one of its own
validate_category(category, subcategory) ==
    /\ category \in DOMAIN Categories
    /\ (subcategory # "" => subcategory \in Categories[category])

-----------------------------------------------------------------------------
(* Stores *)

RECURSIVE SumAmounts(_, _)
SumAmounts(exps, ids) ==
    IF ids = {} THEN 0
    ELSE LET i == CHOOSE x \in ids : TRUE
         IN  exps[i].amount + SumAmounts(exps, ids \ {i})

\* SELECT COALESCE(SUM(amount), 0) FROM expenses
\*  WHERE category = ? AND date BETWEEN ? AND ?
Spent(exps, category, start_date, end_date) ==
    SumAmounts(exps, {i \in DOMAIN exps :
                        /\ exps[i].category = category
                        /\ Between(exps[i].date, start_date, end_date)})

\* INTEGER PRIMARY KEY without AUTOINCREMENT: one more than the largest id stored
NextRowidNoAutoincrement(rows, seq) ==
    IF DOMAIN rows = {} THEN 1
    ELSE (CHOOSE m \in DOMAIN rows : \A i \in DOMAIN rows : i <= m) + 1

\* INTEGER PRIMARY KEY AUTOINCREMENT: one more than the largest id ever used
NextRowid(rows, seq) == seq + 1

\* CURRENT_TIMESTAMP, as a logical time: the number of expenses inserted so far
Now == exp_seq

(* Amounts, limits and thresholds are Python floats and SQLite REALs: IEEE  *)
(* 754 binary64.  A float is [m, e] with value m * 2^e, where m is 0 or has  *)
(* exactly 53 bits; m and the intermediate numerators are three limbs of 26  *)
(* bits, most significant first.  Only non-negative values occur.            *)
LimbBase == 2^26

Big(n) == <<0, n \div LimbBase, n % LimbBase>>

BigGE(a, b) ==
    \/ a[1] > b[1]
    \/ a[1] = b[1] /\ a[2] > b[2]
    \/ a[1] = b[1] /\ a[2] = b[2] /\ a[3] >= b[3]

BigAdd(a, b) ==
    LET l == a[3] + b[3]
        m == a[2] + b[2] + (l \div LimbBase)
    IN  <<a[1] + b[1] + (m \div LimbBase), m % LimbBase, l % LimbBase>>

\* a - b for a >= b
BigSub(a, b) ==
    LET l == a[3] - b[3]
        m == a[2] - b[2] - (IF l < 0 THEN 1 ELSE 0)
    IN  <<a[1] - b[1] - (IF m < 0 THEN 1 ELSE 0), m % LimbBase, l % LimbBase>>

BigTimes100(a) ==
    LET x4 == BigAdd(BigAdd(a, a), BigAdd(a, a))
        x32 == BigAdd(BigAdd(BigAdd(x4, x4), BigAdd(x4, x4)),
                      BigAdd(BigAdd(x4, x4), BigAdd(x4, x4)))
    IN  BigAdd(BigAdd(x32, x32), BigAdd(x32, x4))

FloatZero == [m |-> Big(0), e |-> 0]

\* scales P / Q * 2^e so that Q <= P < 2Q
RECURSIVE Normalize(_, _, _)
Normalize(P, Q, e) ==
    IF ~BigGE(P, Q) THEN Normalize(BigAdd(P, P), Q, e - 1)
    ELSE IF BigGE(P, BigAdd(Q, Q)) THEN Normalize(P, BigAdd(Q, Q), e + 1)
    ELSE <<P, Q, e>>

\* for Q <= P < 2Q: the 53 leading bits m of the quotient P / Q, and the
\* remainder doubled
RECURSIVE Quotient(_, _, _)
Quotient(P, Q, m) ==
    IF BigGE(m, <<1, 0, 0>>) THEN <<m, P>>
    ELSE IF BigGE(P, Q)
         THEN LET R == BigSub(P, Q)
              IN  Quotient(BigAdd(R, R), Q, BigAdd(BigAdd(m, m), Big(1)))
         ELSE Quotient(BigAdd(P, P), Q, BigAdd(m, m))

\* the float nearest to P / Q * 2^e, ties to the even mantissa
RoundToNearestEven(P, Q, e) ==
    IF P = Big(0) THEN FloatZero
    ELSE LET n == Normalize(P, Q, e)
             q == Quotient(n[1], n[2], Big(0))
             up == \/ q[2] # n[2] /\ BigGE(q[2], n[2])
                   \/ q[2] = n[2] /\ q[1][3] % 2 = 1
             m == IF up THEN BigAdd(q[1], Big(1)) ELSE q[1]
         IN  IF m = <<2, 0, 0>> THEN [m |-> <<1, 0, 0>>, e |-> n[3] - 51]
             ELSE [m |-> m, e |-> n[3] - 52]

\* the float a decimal literal p / q denotes
FloatOf(p, q) == RoundToNearestEven(Big(p), Big(q), 0)

\* a / b for b # 0
FloatDiv(a, b) == RoundToNearestEven(a.m, b.m, a.e - b.e)

\* a * 100; the product of the mantissa lies between 2^58 and 2^60
FloatTimes100(a) == RoundToNearestEven(BigTimes100(a.m), <<64, 0, 0>>, a.e + 58)

\* a >= b
FloatGE(a, b) ==
    IF b.m = Big(0) THEN TRUE
    ELSE IF a.m = Big(0) THEN FALSE
    ELSE a.e > b.e \/ (a.e = b.e /\ BigGE(a.m, b.m))

\* percentage = (spent / limit) * 100 if limit > 0 else 0, on the floats the
\* cent values denote; the SUM of a month is taken as the float nearest to
\* the exact total
Percentage(spent, limit) ==
    IF limit > 0
    THEN FloatTimes100(FloatDiv(FloatOf(spent, 100), FloatOf(limit, 100)))
    ELSE FloatZero

\* the if/elif of the add-time alert; threshold is in hundredths
AlertLevel(spent, limit, threshold) ==
    LET percentage == Percentage(spent, limit)
    IN  IF FloatGE(percentage, FloatOf(100, 1)) THEN "CRITICAL"
        ELSE IF FloatGE(percentage, FloatTimes100(FloatOf(threshold, 100)))
        THEN "WARNING"
        ELSE "NONE"

\* alert_status of get_budget_status
AlertStatus(spent, limit, threshold) ==
    LET percentage == Percentage(spent, limit)
    IN  IF FloatGE(percentage, FloatOf(100, 1)) THEN "exceeded"
        ELSE IF FloatGE(percentage, FloatTimes100(FloatOf(threshold, 100)))
        THEN "warning"
        ELSE "ok"

\* the budget check that follows an insert: None when the category has no
\* budget or the threshold is not reached
BudgetAlert(exps, buds, category, date) ==
    LET rows == {b \in buds : b.category = category}
    IN  IF rows = {} THEN None
        ELSE LET b == CHOOSE r \in rows : TRUE
                 year_month == Prefix(date, 7)
                 spent == Spent(exps, category, MonthStart(year_month),
                                MonthEnd(year_month))
                 level == AlertLevel(spent, b.monthly_limit, b.alert_threshold)
             IN  IF level = "NONE" THEN None
                 ELSE Some([alert_level |-> level,
                            category |-> category,
                            spent |-> spent,
                            limit |-> b.monthly_limit,
                            remaining |-> b.monthly_limit - spent])

\* a tool's result: status, a tag for its message, the id the message names
\* (about), and the fields some tools add
Result(status, message) ==
    [status |-> status, message |-> message, about |-> None, id |-> None,
     recurring_id |-> None, deleted_count |-> None, budget_alert |-> None,
     expenses |-> None, budgets |-> None, recurring_expenses |-> None,
     total_amount |-> None, categories |-> None, top_expenses |-> None,
     trends |-> None, breakdown |-> None]

Error(message) == Result("error", message)

\* f"Expense with id {id} not found"
NotFound(id) == [Error("not_found") EXCEPT !.about = Some(id)]

Init ==
    /\ expenses = <<>>
    /\ exp_seq = 0
    /\ budgets = {}
    /\ bud_seq = 0
    /\ recurring = <<>>
    /\ rec_seq = 0
    /\ call = "init"
    /\ response = Result("ok", "init")
    /\ issued = <<>>
    /\ deleted = {}
    /\ request = None

\* rows with one more row under a new id
Insert(rows, id, row) ==
    [i \in DOMAIN rows \cup {id} |-> IF i = id THEN row ELSE rows[i]]

\* a DELETE that never takes effect
RemoveNothing(rows, gone) == rows

\* rows without the ids in gone
Remove(rows, gone) == [i \in DOMAIN rows \ gone |-> rows[i]]

-----------------------------------------------------------------------------
(* add_expense *)

add_expense(date, amount, category, subcategory, note) ==
    /\ call' = "add_expense"
    /\ UNCHANGED <<budgets, bud_seq, recurring, rec_seq, deleted>>
    /\ IF ~validate_date(date)
       THEN /\ response' = Error("invalid_date")
            /\ UNCHANGED <<expenses, exp_seq, issued>>
       ELSE IF ~validate_amount(amount)
       THEN /\ response' = Error("invalid_amount")
            /\ UNCHANGED <<expenses, exp_seq, issued>>
       ELSE IF ~validate_category(category, subcategory)
       THEN /\ response' = Error("invalid_category")
            /\ UNCHANGED <<expenses, exp_seq, issued>>
       ELSE LET expense_id == NextRowid(expenses, exp_seq)
                row == [date |-> date, amount |-> amount, category |-> category,
                        subcategory |-> subcategory, note |-> note,
                        created_at |-> Now]
                after == Insert(expenses, expense_id, row)
            IN  /\ expenses' = after
                /\ exp_seq' = IF expense_id > exp_seq THEN expense_id ELSE exp_seq
                /\ issued' = Append(issued, expense_id)
                /\ response' = [Result("ok", "added") EXCEPT
                                   !.id = Some(expense_id),
                                   !.budget_alert =
                                       BudgetAlert(after, budgets, category, date)]

-----------------------------------------------------------------------------
(* list_expenses *)

\* the columns list_expenses selects
ListedRow(exps, i) ==
    [id |-> i, date |-> exps[i].date, amount |-> exps[i].amount,
     category |-> exps[i].category, subcategory |-> exps[i].subcategory,
     note |-> exps[i].note]

\* ORDER BY date DESC, id DESC
RECURSIVE OrderByDateDescIdDesc(_, _)
OrderByDateDescIdDesc(exps, ids) ==
    IF ids = {} THEN <<>>
    ELSE LET first == CHOOSE i \in ids : \A j \in ids \ {i} :
                          \/ TextLT(exps[j].date, exps[i].date)
                          \/ exps[j].date = exps[i].date /\ j < i
         IN  <<ListedRow(exps, first)>>
                 \o OrderByDateDescIdDesc(exps, ids \ {first})

\* bounds taken as exclusive: date > ? AND date < ?
ListedIdsExclusive(exps, start_date, end_date, category) ==
    {i \in DOMAIN exps :
        /\ TextLT(start_date, exps[i].date)
        /\ TextLT(exps[i].date, end_date)
        /\ (~IsNone(category) /\ Val(category) # ""
               => exps[i].category = Val(category))}

\* WHERE date BETWEEN ? AND ? [AND category = ?]; the filter applies when
\* category is given and not empty
ListedIds(exps, start_date, end_date, category) ==
    {i \in DOMAIN exps :
        /\ Between(exps[i].date, start_date, end_date)
        /\ (~IsNone(category) /\ Val(category) # ""
               => exps[i].category = Val(category))}

ListRows(exps, start_date, end_date, category) ==
    OrderByDateDescIdDesc(exps, ListedIds(exps, start_date, end_date, category))

list_expenses(start_date, end_date, category) ==
    /\ call' = "list_expenses"
    /\ UNCHANGED <<expenses, exp_seq, budgets, bud_seq, recurring, rec_seq,
                   issued, deleted>>
    /\ IF ~validate_date(start_date) \/ ~validate_date(end_date)
       THEN response' = Error("invalid_date")
       ELSE response' = [Result("ok", "listed") EXCEPT
                            !.expenses = Some(ListRows(expenses, start_date,
                                                       end_date, category))]

-----------------------------------------------------------------------------
(* summarize *)

\* WHERE date BETWEEN ? AND ? [AND category = ?]; the filter applies when
\* category is given and not empty
SummarizedIds(exps, start_date, end_date, category) ==
    {i \in DOMAIN exps :
        /\ Between(exps[i].date, start_date, end_date)
        /\ (~IsNone(category) /\ Val(category) # ""
               => exps[i].category = Val(category))}

\* SELECT category, SUM(amount) AS total_amount, COUNT(*) AS count
\*  ... GROUP BY category
GroupByCategory(exps, ids) ==
    {[category |-> c,
      total_amount |-> SumAmounts(exps, {i \in ids : exps[i].category = c}),
      count |-> Cardinality({i \in ids : exps[i].category = c})] :
        c \in {exps[i].category : i \in ids}}

\* ORDER BY total_amount DESC: the orders SQL allows, equal totals either way
OrderByTotalDesc(rows) ==
    {s \in [1..Cardinality(rows) -> rows] :
        /\ \A i, j \in DOMAIN s : i # j => s[i] # s[j]
        /\ \A i, j \in DOMAIN s : i < j => s[i].total_amount >= s[j].total_amount}

\* sum(item['total_amount'] for item in summary)
RECURSIVE SumTotals(_, _)
SumTotals(summary, n) ==
    IF n = 0 THEN 0 ELSE SumTotals(summary, n - 1) + summary[n].total_amount

summarize(start_date, end_date, category) ==
    /\ call' = "summarize"
    /\ UNCHANGED <<expenses, exp_seq, budgets, bud_seq, recurring, rec_seq,
                   issued, deleted>>
    /\ IF ~validate_date(start_date) \/ ~validate_date(end_date)
       THEN response' = Error("invalid_date")
       ELSE \E summary \in OrderByTotalDesc(GroupByCategory(expenses,
                              SummarizedIds(expenses, start_date, end_date,
                                            category))) :
               response' = [Result("ok", "summary") EXCEPT
                               !.about = Some(<<start_date, end_date>>),
                               !.total_amount =
                                   Some(SumTotals(summary, Len(summary))),
                               !.categories = Some(summary)]

-----------------------------------------------------------------------------
(* Analytics: get_monthly_trends, get_top_expenses, get_category_breakdown *)

\* str(year) of a non-negative int
RECURSIVE Str(_)
Str(n) == IF n < 10 THEN <<48 + n>> ELSE Str(n \div 10) \o <<48 + (n % 10)>>

\* a text SQLite's date functions read as a date: YYYY-MM-DD, all digits
\* (strftime gives NULL for any other text a stored date can be)
SqliteDate(d) ==
    /\ Len(d) = 10
    /\ d[5] = Dash /\ d[8] = Dash
    /\ \A i \in {1, 2, 3, 4, 6, 7, 9, 10} : IsDigit(d[i])

\* WHERE strftime('%Y', date) = ? [AND category = ?]
TrendIds(exps, year, category) ==
    {i \in DOMAIN exps :
        /\ SqliteDate(exps[i].date)
        /\ SubSeq(exps[i].date, 1, 4) = Str(year)
        /\ (~IsNone(category) /\ Val(category) # ""
               => exps[i].category = Val(category))}

month_names ==
    <<"Jan", "Feb", "Mar", "Apr", "May", "Jun",
      "Jul", "Aug", "Sep", "Oct", "Nov", "Dec">>

\* one row of GROUP BY month, with its month name (the rounded average is
\* left out)
Trend(exps, ids, month) ==
    LET rows == {i \in ids : SubSeq(exps[i].date, 6, 7) = month}
    IN  [month |-> month,
         total |-> SumAmounts(exps, rows),
         count |-> Cardinality(rows),
         month_name |-> month_names[FieldValue(month)]]

\* ORDER BY month ASC
RECURSIVE OrderByMonthAsc(_, _, _)
OrderByMonthAsc(exps, ids, months) ==
    IF months = {} THEN <<>>
    ELSE LET first == CHOOSE x \in months : \A y \in months \ {x} : TextLT(x, y)
         IN  <<Trend(exps, ids, first)>>
                 \o OrderByMonthAsc(exps, ids, months \ {first})

get_monthly_trends(year, category) ==
    /\ call' = "get_monthly_trends"
    /\ UNCHANGED <<expenses, exp_seq, budgets, bud_seq, recurring, rec_seq,
                   issued, deleted>>
    /\ LET ids == TrendIds(expenses, year, category)
       IN  response' = [Result("ok", "trends") EXCEPT
                           !.about = Some(year),
                           !.trends = Some(OrderByMonthAsc(expenses, ids,
                                        {SubSeq(expenses[i].date, 6, 7) : i \in ids}))]

\* WHERE date BETWEEN ? AND ?
IdsBetween(exps, start_date, end_date) ==
    {i \in DOMAIN exps : Between(exps[i].date, start_date, end_date)}

\* ORDER BY amount DESC: the orders SQL allows, equal amounts either way
OrderByAmountDesc(exps, ids) ==
    {s \in [1..Cardinality(ids) -> ids] :
        /\ \A i, j \in DOMAIN s : i # j => s[i] # s[j]
        /\ \A i, j \in DOMAIN s : i < j => exps[s[i]].amount >= exps[s[j]].amount}

\* LIMIT ?: the first `limit` rows, every row when limit is negative
Limit(rows, limit) == IF limit < 0 THEN rows ELSE Prefix(rows, limit)

get_top_expenses(start_date, end_date, limit) ==
    /\ call' = "get_top_expenses"
    /\ UNCHANGED <<expenses, exp_seq, budgets, bud_seq, recurring, rec_seq,
                   issued, deleted>>
    /\ IF ~validate_date(start_date) \/ ~validate_date(end_date)
       THEN response' = Error("invalid_date")
       ELSE \E order \in OrderByAmountDesc(expenses,
                            IdsBetween(expenses, start_date, end_date)) :
               response' = [Result("ok", "top") EXCEPT
                               !.top_expenses =
                                   Some(Limit([k \in DOMAIN order |->
                                                  ListedRow(expenses, order[k])],
                                              limit))]

\* GROUP BY category, subcategory (the rounded average is left out)
GroupBySubcategory(exps, ids) ==
    {[category |-> g[1], subcategory |-> g[2],
      total |-> SumAmounts(exps, {i \in ids : /\ exps[i].category = g[1]
                                              /\ exps[i].subcategory = g[2]}),
      count |-> Cardinality({i \in ids : /\ exps[i].category = g[1]
                                         /\ exps[i].subcategory = g[2]})] :
        g \in {<<exps[i].category, exps[i].subcategory>> : i \in ids}}

\* ORDER BY category, total DESC, as far as one category's rows go: the
\* orders SQL allows within a category, equal totals either way
OrderByTotalDescWithinCategory(rows) ==
    {s \in [1..Cardinality(rows) -> rows] :
        /\ \A i, j \in DOMAIN s : i # j => s[i] # s[j]
        /\ \A i, j \in DOMAIN s :
              i < j /\ s[i].category = s[j].category => s[i].total >= s[j].total}

RECURSIVE SumOf(_, _)
SumOf(rows, field) ==
    IF rows = {} THEN 0
    ELSE LET r == CHOOSE x \in rows : TRUE
         IN  r[field] + SumOf(rows \ {r}, field)

\* rows of one category, in the order of the result set
SubcategoriesOf(order, category) ==
    LET Sub(r) == [subcategory |-> r.subcategory, total |-> r.total,
                   count |-> r.count]
        F[k \in 0..Len(order)] ==
            IF k = 0 THEN <<>>
            ELSE IF order[k].category = category THEN Append(F[k - 1], Sub(order[k]))
            ELSE F[k - 1]
    IN  F[Len(order)]

\* the dict built from the result set: category -> total, count, subcategories
Breakdown(rows, order) ==
    [c \in {r.category : r \in rows} |->
        [total |-> SumOf({r \in rows : r.category = c}, "total"),
         count |-> SumOf({r \in rows : r.category = c}, "count"),
         subcategories |-> SubcategoriesOf(order, c)]]

get_category_breakdown(start_date, end_date) ==
    /\ call' = "get_category_breakdown"
    /\ UNCHANGED <<expenses, exp_seq, budgets, bud_seq, recurring, rec_seq,
                   issued, deleted>>
    /\ IF ~validate_date(start_date) \/ ~validate_date(end_date)
       THEN response' = Error("invalid_date")
       ELSE LET rows == GroupBySubcategory(expenses,
                            IdsBetween(expenses, start_date, end_date))
            IN  \E order \in OrderByTotalDescWithinCategory(rows) :
                   response' = [Result("ok", "breakdown") EXCEPT
                                   !.about = Some(<<start_date, end_date>>),
                                   !.breakdown = Some(Breakdown(rows, order))]

-----------------------------------------------------------------------------
(* delete_expense *)

RangeWithOne(seq) == {seq[k] : k \in DOMAIN seq} \cup {1}

Range(seq) == {seq[k] : k \in DOMAIN seq}

\* the conditions joined by OR
MatchingIdsOr(exps, start_date, end_date, category) ==
    {i \in DOMAIN exps :
        \/ /\ ~IsNone(start_date) /\ ~IsNone(end_date)
           /\ Between(exps[i].date, Val(start_date), Val(end_date))
        \/ ~IsNone(category) /\ exps[i].category = Val(category)}

\* the rows the WHERE clause built from the conditions selects: the date
\* range when both ends are given, the category when it is given
MatchingIds(exps, start_date, end_date, category) ==
    {i \in DOMAIN exps :
        /\ (~IsNone(start_date) /\ ~IsNone(end_date)
               => Between(exps[i].date, Val(start_date), Val(end_date)))
        /\ (~IsNone(category) => exps[i].category = Val(category))}

DeletedOne(count) == [Result("ok", "deleted") EXCEPT !.deleted_count = Some(1)]

Deleted(count) == [Result("ok", "deleted") EXCEPT !.deleted_count = Some(count)]

delete_expense(id, ids, start_date, end_date, category, delete_all) ==
    LET has_range == ~IsNone(start_date) /\ ~IsNone(end_date)
        conditions == has_range \/ ~IsNone(category)
        matching == MatchingIds(expenses, start_date, end_date, category)
        in_ids == IF IsNone(ids) THEN {} ELSE DOMAIN expenses \cap Range(Val(ids))
    IN
    /\ call' = "delete_expense"
    /\ UNCHANGED <<exp_seq, budgets, bud_seq, recurring, rec_seq, issued>>
    /\ IF ~IsNone(id)
       THEN IF Val(id) \notin DOMAIN expenses
            THEN /\ response' = NotFound(Val(id))
                 /\ UNCHANGED <<expenses, deleted>>
            ELSE /\ expenses' = Remove(expenses, {Val(id)})
                 /\ deleted' = deleted \cup {Val(id)}
                 /\ response' = [Deleted(1) EXCEPT !.about = id]
       ELSE IF ~IsNone(ids) /\ Len(Val(ids)) > 0
       THEN IF in_ids = {}
            THEN /\ response' = Error("no_match")
                 /\ UNCHANGED <<expenses, deleted>>
            ELSE /\ expenses' = Remove(expenses, in_ids)
                 /\ response' = Deleted(Cardinality(in_ids))
                 /\ UNCHANGED deleted
       ELSE IF has_range /\ (~validate_date(Val(start_date))
                             \/ ~validate_date(Val(end_date)))
       THEN /\ response' = Error("invalid_date")
            /\ UNCHANGED <<expenses, deleted>>
       ELSE IF delete_all /\ ~conditions
       THEN IF DOMAIN expenses = {}
            THEN /\ response' = Error("nothing_to_delete")
                 /\ UNCHANGED <<expenses, deleted>>
            ELSE /\ expenses' = <<>>
                 /\ response' = [Deleted(Cardinality(DOMAIN expenses)) EXCEPT
                                    !.message = "deleted_all"]
                 /\ UNCHANGED deleted
       ELSE IF conditions
       THEN IF matching = {}
            THEN /\ response' = Error("no_match")
                 /\ UNCHANGED <<expenses, deleted>>
            ELSE /\ expenses' = Remove(expenses, matching)
                 /\ response' = Deleted(Cardinality(matching))
                 /\ UNCHANGED deleted
       ELSE /\ response' = Error("no_criteria")
            /\ UNCHANGED <<expenses, deleted>>

-----------------------------------------------------------------------------
(* update_expense *)

\* an UPDATE that writes every column, an absent note as the empty note
UpdatedRowResettingNote(row, date, amount, category, subcategory, note) ==
    [date |-> IF IsNone(date) THEN row.date ELSE Val(date),
     amount |-> IF IsNone(amount) THEN row.amount ELSE Val(amount),
     category |-> IF IsNone(category) THEN row.category ELSE Val(category),
     subcategory |-> IF IsNone(subcategory) THEN row.subcategory
                     ELSE Val(subcategory),
     note |-> IF IsNone(note) THEN <<>> ELSE Val(note),
     created_at |-> row.created_at]

\* the row after UPDATE expenses SET <the provided columns>
UpdatedRow(row, date, amount, category, subcategory, note) ==
    [date |-> IF IsNone(date) THEN row.date ELSE Val(date),
     amount |-> IF IsNone(amount) THEN row.amount ELSE Val(amount),
     category |-> IF IsNone(category) THEN row.category ELSE Val(category),
     subcategory |-> IF IsNone(subcategory) THEN row.subcategory
                     ELSE Val(subcategory),
     note |-> IF IsNone(note) THEN row.note ELSE Val(note),
     created_at |-> row.created_at]

\* a result that carries the alert of the updated expense's category and month
UpdatedWithAlert(exps, buds, id) ==
    [Result("ok", "updated") EXCEPT
        !.about = Some(id),
        !.budget_alert = BudgetAlert(exps, buds, exps[id].category, exps[id].date)]

\* {"status": "ok", "message": f"Expense {id} updated successfully"}
Updated(exps, buds, id) == [Result("ok", "updated") EXCEPT !.about = Some(id)]

update_expense(id, date, amount, category, subcategory, note) ==
    /\ call' = "update_expense"
    /\ UNCHANGED <<exp_seq, budgets, bud_seq, recurring, rec_seq, issued, deleted>>
    /\ IF id \notin DOMAIN expenses
       THEN /\ response' = NotFound(id)
            /\ UNCHANGED expenses
       ELSE IF ~IsNone(date) /\ ~validate_date(Val(date))
       THEN /\ response' = Error("invalid_date")
            /\ UNCHANGED expenses
       ELSE IF ~IsNone(amount) /\ ~validate_amount(Val(amount))
       THEN /\ response' = Error("invalid_amount")
            /\ UNCHANGED expenses
       ELSE IF /\ ~IsNone(category)
               \* validate_category(category, subcategory or "")
               /\ ~validate_category(Val(category),
                                     IF IsNone(subcategory) THEN ""
                                     ELSE Val(subcategory))
       THEN /\ response' = Error("invalid_category")
            /\ UNCHANGED expenses
       ELSE IF /\ IsNone(date) /\ IsNone(amount) /\ IsNone(category)
               /\ IsNone(subcategory) /\ IsNone(note)
       THEN /\ response' = Error("no_fields")
            /\ UNCHANGED expenses
       ELSE LET after == [expenses EXCEPT ![id] =
                               UpdatedRow(expenses[id], date, amount, category,
                                          subcategory, note)]
            IN  /\ expenses' = after
                /\ response' = Updated(after, budgets, id)

-----------------------------------------------------------------------------
(* budgets *)

\* a plain INSERT INTO budgets on a table without the UNIQUE constraint
set_budget_insert(category, monthly_limit, alert_threshold) ==
    /\ call' = "set_budget"
    /\ UNCHANGED <<expenses, exp_seq, recurring, rec_seq, issued, deleted>>
    /\ IF ~validate_amount(monthly_limit)
       THEN /\ response' = Error("invalid_limit")
            /\ UNCHANGED <<budgets, bud_seq>>
       ELSE IF ~(0 < alert_threshold /\ alert_threshold <= 100)
       THEN /\ response' = Error("invalid_threshold")
            /\ UNCHANGED <<budgets, bud_seq>>
       ELSE IF ~validate_category(category, "")
       THEN /\ response' = Error("invalid_category")
            /\ UNCHANGED <<budgets, bud_seq>>
       ELSE /\ budgets' = budgets
                            \cup {[id |-> bud_seq + 1, category |-> category,
                                   monthly_limit |-> monthly_limit,
                                   alert_threshold |-> alert_threshold,
                                   created_at |-> Now]}
            /\ bud_seq' = bud_seq + 1
            /\ response' = Result("ok", "budget_set")

\* INSERT OR REPLACE INTO budgets: the row of the same category (UNIQUE) goes,
\* the new row gets a new id
set_budget(category, monthly_limit, alert_threshold) ==
    /\ call' = "set_budget"
    /\ UNCHANGED <<expenses, exp_seq, recurring, rec_seq, issued, deleted>>
    /\ IF ~validate_amount(monthly_limit)
       THEN /\ response' = Error("invalid_limit")
            /\ UNCHANGED <<budgets, bud_seq>>
       ELSE IF ~(0 < alert_threshold /\ alert_threshold <= 100)
       THEN /\ response' = Error("invalid_threshold")
            /\ UNCHANGED <<budgets, bud_seq>>
       ELSE IF ~validate_category(category, "")
       THEN /\ response' = Error("invalid_category")
            /\ UNCHANGED <<budgets, bud_seq>>
       ELSE /\ budgets' = {b \in budgets : b.category # category}
                            \cup {[id |-> bud_seq + 1, category |-> category,
                                   monthly_limit |-> monthly_limit,
                                   alert_threshold |-> alert_threshold,
                                   created_at |-> Now]}
            /\ bud_seq' = bud_seq + 1
            /\ response' = Result("ok", "budget_set")

\* a DELETE without WHERE run before the row is looked for
delete_budget_clearing(category) ==
    /\ call' = "delete_budget"
    /\ UNCHANGED <<expenses, exp_seq, bud_seq, recurring, rec_seq, issued, deleted>>
    /\ IF ~\E b \in budgets : b.category = category
       THEN /\ response' = Error("not_found")
            /\ budgets' = {}
       ELSE /\ budgets' = {b \in budgets : b.category # category}
            /\ response' = Result("ok", "budget_deleted")

delete_budget(category) ==
    /\ call' = "delete_budget"
    /\ UNCHANGED <<expenses, exp_seq, bud_seq, recurring, rec_seq, issued, deleted>>
    /\ IF ~\E b \in budgets : b.category = category
       THEN /\ response' = Error("not_found")
            /\ UNCHANGED budgets
       ELSE /\ budgets' = {b \in budgets : b.category # category}
            /\ response' = Result("ok", "budget_deleted")

\* the categories of the taxonomy in the order of their names
CategoryOrder == <<"food", "transport">>

\* SELECT category, monthly_limit, alert_threshold FROM budgets ORDER BY
\* category (a budget's category is one of the taxonomy)
OrderByCategory(buds) ==
    LET F[k \in 0..Len(CategoryOrder)] ==
            IF k = 0 THEN <<>>
            ELSE LET rows == {b \in buds : b.category = CategoryOrder[k]}
                 IN  IF rows = {} THEN F[k - 1]
                     ELSE LET b == CHOOSE x \in rows : TRUE
                          IN  Append(F[k - 1],
                                     [category |-> b.category,
                                      monthly_limit |-> b.monthly_limit,
                                      alert_threshold |-> b.alert_threshold])
    IN  F[Len(CategoryOrder)]

list_budgets ==
    /\ call' = "list_budgets"
    /\ UNCHANGED <<expenses, exp_seq, budgets, bud_seq, recurring, rec_seq,
                   issued, deleted>>
    /\ response' = [Result("ok", "budget_list") EXCEPT
                       !.budgets = Some(OrderByCategory(budgets))]

\* strptime(year_month, "%Y-%m") accepts what "%Y-%m-%d" accepts once "-01"
\* is appended
ValidYearMonth(year_month) == validate_date(year_month \o <<Dash, 48, 49>>)

\* one entry of status_list (the rounded percentage is left out)
BudgetStatus(exps, b, year_month) ==
    LET spent == Spent(exps, b.category, MonthStart(year_month),
                       MonthEnd(year_month))
    IN  [category |-> b.category,
         limit |-> b.monthly_limit,
         spent |-> spent,
         remaining |-> b.monthly_limit - spent,
         alert_status |-> AlertStatus(spent, b.monthly_limit, b.alert_threshold),
         transaction_count |->
            Cardinality({i \in DOMAIN exps :
                            /\ exps[i].category = b.category
                            /\ Between(exps[i].date, MonthStart(year_month),
                                       MonthEnd(year_month))})]

\* the budgets are read without ORDER BY: the list is kept as a set
get_budget_status(year_month) ==
    /\ call' = "get_budget_status"
    /\ UNCHANGED <<expenses, exp_seq, budgets, bud_seq, recurring, rec_seq,
                   issued, deleted>>
    /\ IF ~ValidYearMonth(year_month)
       THEN response' = Error("invalid_format")
       ELSE IF budgets = {}
       THEN response' = [Result("ok", "no_budgets") EXCEPT !.budgets = Some({})]
       ELSE response' =
               [Result("ok", "status") EXCEPT
                   !.about = Some(year_month),
                   !.budgets = Some({BudgetStatus(expenses, b, year_month) :
                                        b \in budgets})]

-----------------------------------------------------------------------------
(* add_recurring_expense *)

FrequenciesWithHourly == {"daily", "weekly", "monthly", "yearly", "hourly"}

Frequencies == {"daily", "weekly", "monthly", "yearly"}

\* f"[Recurring {frequency}] {note}" if note else f"Recurring {frequency} expense",
\* a note being the sequence of its words
RecurringNote(frequency, note) ==
    IF note # <<>> THEN <<"[Recurring", frequency, "]">> \o note
    ELSE <<"Recurring", frequency, "expense">>

add_recurring_expense(amount, category, frequency, start_date, subcategory, note, end_date) ==
    /\ call' = "add_recurring_expense"
    /\ UNCHANGED <<budgets, bud_seq, deleted>>
    /\ IF ~validate_amount(amount)
       THEN /\ response' = Error("invalid_amount")
            /\ UNCHANGED <<expenses, exp_seq, recurring, rec_seq, issued>>
       ELSE IF ~validate_date(start_date)
       THEN /\ response' = Error("invalid_start_date")
            /\ UNCHANGED <<expenses, exp_seq, recurring, rec_seq, issued>>
       ELSE IF /\ ~IsNone(end_date) /\ Val(end_date) # <<>>
               /\ ~validate_date(Val(end_date))
       THEN /\ response' = Error("invalid_end_date")
            /\ UNCHANGED <<expenses, exp_seq, recurring, rec_seq, issued>>
       ELSE IF frequency \notin Frequencies
       THEN /\ response' = Error("invalid_frequency")
            /\ UNCHANGED <<expenses, exp_seq, recurring, rec_seq, issued>>
       ELSE IF ~validate_category(category, subcategory)
       THEN /\ response' = Error("invalid_category")
            /\ UNCHANGED <<expenses, exp_seq, recurring, rec_seq, issued>>
       ELSE LET recurring_id == NextRowid(recurring, rec_seq)
                expense_id == NextRowid(expenses, exp_seq)
                definition == [amount |-> amount, category |-> category,
                               subcategory |-> subcategory, note |-> note,
                               frequency |-> frequency, start_date |-> start_date,
                               end_date |-> end_date, last_applied |-> start_date,
                               active |-> 1, created_at |-> Now]
                row == [date |-> start_date, amount |-> amount,
                        category |-> category, subcategory |-> subcategory,
                        note |-> RecurringNote(frequency, note),
                        created_at |-> Now]
                after == Insert(expenses, expense_id, row)
            IN  /\ recurring' = Insert(recurring, recurring_id, definition)
                /\ rec_seq' = IF recurring_id > rec_seq THEN recurring_id
                              ELSE rec_seq
                /\ expenses' = after
                /\ exp_seq' = IF expense_id > exp_seq THEN expense_id ELSE exp_seq
                /\ issued' = Append(issued, expense_id)
                /\ response' = [Result("ok", "recurring_added") EXCEPT
                                   !.recurring_id = Some(recurring_id),
                                   !.id = Some(expense_id),
                                   !.budget_alert =
                                       BudgetAlert(after, budgets, category,
                                                   start_date)]

\* ORDER BY id DESC
RECURSIVE OrderByIdDesc(_)
OrderByIdDesc(ids) ==
    IF ids = {} THEN <<>>
    ELSE LET top == CHOOSE i \in ids : \A j \in ids : j <= i
         IN  <<top>> \o OrderByIdDesc(ids \ {top})

\* the columns list_recurring_expenses selects
ListedDefinition(defs, i) ==
    [id |-> i, amount |-> defs[i].amount, category |-> defs[i].category,
     subcategory |-> defs[i].subcategory, note |-> defs[i].note,
     frequency |-> defs[i].frequency, start_date |-> defs[i].start_date,
     end_date |-> defs[i].end_date, last_applied |-> defs[i].last_applied,
     active |-> defs[i].active]

list_recurring_expenses(active_only) ==
    /\ call' = "list_recurring_expenses"
    /\ UNCHANGED <<expenses, exp_seq, budgets, bud_seq, recurring, rec_seq,
                   issued, deleted>>
    /\ LET order == OrderByIdDesc({i \in DOMAIN recurring :
                                      active_only => recurring[i].active = 1})
       IN  response' = [Result("ok", "recurring_list") EXCEPT
                           !.recurring_expenses =
                               Some([k \in 1..Len(order) |->
                                        ListedDefinition(recurring, order[k])])]

DeactivatedAndAdvanced(row) == [row EXCEPT !.active = 0, !.last_applied = <<>>]

Toggled(row) == [row EXCEPT !.active = 1 - @]

\* UPDATE recurring_expenses SET active = 0
Deactivated(row) == [row EXCEPT !.active = 0]

deactivate_recurring_expense(id) ==
    /\ call' = "deactivate_recurring_expense"
    /\ UNCHANGED <<expenses, exp_seq, budgets, bud_seq, rec_seq, issued, deleted>>
    /\ IF id \notin DOMAIN recurring
       THEN /\ response' = NotFound(id)
            /\ UNCHANGED recurring
       ELSE /\ recurring' = [recurring EXCEPT ![id] = Deactivated(recurring[id])]
            /\ response' = [Result("ok", "deactivated") EXCEPT !.about = Some(id)]

-----------------------------------------------------------------------------
(* Inputs *)

MaxId == 2

Opt(S) == {None} \cup {Some(x) : x \in S}

D_2024_02_29 == <<50, 48, 50, 52, 45, 48, 50, 45, 50, 57>>  \* "2024-02-29"
D_2024_02_05 == <<50, 48, 50, 52, 45, 48, 50, 45, 48, 53>>  \* "2024-02-05"
D_2024_2_5 == <<50, 48, 50, 52, 45, 50, 45, 53>>            \* "2024-2-5"
D_2024_03_01 == <<50, 48, 50, 52, 45, 48, 51, 45, 48, 49>>  \* "2024-03-01"
D_2023_02_29 == <<50, 48, 50, 51, 45, 48, 50, 45, 50, 57>>  \* "2023-02-29"

AddExpenseCalls(D, A, C, S, N) ==
    /\ exp_seq < MaxId
    /\ UNCHANGED request
    /\ \E date \in D, amount \in A, category \in C, subcategory \in S, note \in N :
          add_expense(date, amount, category, subcategory, note)

UpdateExpenseCalls(D, A, C, S, N) ==
    /\ UNCHANGED request
    /\ \E id \in 1..MaxId, date \in Opt(D), amount \in Opt(A), category \in Opt(C),
          subcategory \in Opt(S), note \in Opt(N) :
             update_expense(id, date, amount, category, subcategory, note)

DeleteExpenseCalls(I, L, D, C, B) ==
    /\ UNCHANGED request
    /\ \E id \in Opt(I), ids \in Opt(L), start_date \in Opt(D),
          end_date \in Opt(D), category \in Opt(C), delete_all \in B :
             delete_expense(id, ids, start_date, end_date, category, delete_all)

\* a delete_expense call arrives with its arguments
ReceiveDelete(I, L, D, E, C, B) ==
    /\ IF IsNone(request) THEN TRUE ELSE ~Val(request).pending
    /\ \E id \in Opt(I), ids \in Opt(L), start_date \in Opt(D),
          end_date \in Opt(E), category \in Opt(C), delete_all \in B :
             request' = Some([id |-> id, ids |-> ids, start_date |-> start_date,
                              end_date |-> end_date, category |-> category,
                              delete_all |-> delete_all, pending |-> TRUE])
    /\ UNCHANGED <<expenses, exp_seq, budgets, bud_seq, recurring, rec_seq,
                   call, response, issued, deleted>>

\* the call received is served: delete_expense runs with its arguments
ServeDelete ==
    /\ ~IsNone(request)
    /\ Val(request).pending
    /\ LET a == Val(request)
       IN  delete_expense(a.id, a.ids, a.start_date, a.end_date, a.category,
                          a.delete_all)
    /\ request' = Some([Val(request) EXCEPT !.pending = FALSE])

AddRecurringCalls(A, C, F, D, S, N, E) ==
    /\ exp_seq < MaxId
    /\ UNCHANGED request
    /\ \E amount \in A, category \in C, frequency \in F, start_date \in D,
          subcategory \in S, note \in N, end_date \in Opt(E) :
          add_recurring_expense(amount, category, frequency, start_date,
                                subcategory, note, end_date)

ListExpensesCalls(D, C) ==
    /\ UNCHANGED request
    /\ \E start_date \in D, end_date \in D, category \in Opt(C) :
          list_expenses(start_date, end_date, category)

-----------------------------------------------------------------------------
(* Categories and subcategories: adds, updates, recurring adds and deletes *)
(* that differ in category and subcategory only                            *)

NextTaxonomy ==
    \/ AddExpenseCalls({D_2024_02_29}, {500}, {"food", "transport", "misc"},
                       {"", "groceries", "fuel"}, {<<>>})
    \/ UpdateExpenseCalls({}, {}, {"food", "transport", "misc"},
                          {"", "groceries", "fuel"}, {})
    \/ AddRecurringCalls({500}, {"food", "misc"}, {"monthly"}, {D_2024_02_29},
                         {"", "dining", "fuel"}, {<<>>}, {})
    \/ DeleteExpenseCalls(1..MaxId, {}, {}, {}, {FALSE})

SpecTaxonomy == Init /\ [][NextTaxonomy]_vars

\* C1: every stored expense has a category of the taxonomy and a subcategory
\* that is empty or registered under the expense's own category.
TaxonomyConsistent ==
    \A i \in DOMAIN expenses :
        /\ expenses[i].category \in DOMAIN Categories
        /\ \/ expenses[i].subcategory = ""
           \/ expenses[i].subcategory \in Categories[expenses[i].category]

-----------------------------------------------------------------------------
(* Amounts: calls that differ in the amount, valid or not *)

NextAmount ==
    \/ AddExpenseCalls({D_2024_02_29, D_2023_02_29}, {-100, 0, 500, 700},
                       {"food", "misc"}, {""}, {<<>>})
    \/ UpdateExpenseCalls({D_2024_03_01}, {-100, 0, 500, 700}, {"transport"}, {}, {})
    \/ AddRecurringCalls({-100, 0, 700}, {"food"}, {"monthly", "hourly"},
                         {D_2024_02_29}, {""}, {<<>>}, {})
    \/ DeleteExpenseCalls(1..MaxId, {}, {}, {}, {FALSE})

SpecAmount == Init /\ [][NextAmount]_vars

\* C2: every stored expense has amount > 0, whatever calls succeeded or failed.
AmountsPositive == \A i \in DOMAIN expenses : expenses[i].amount > 0

\* a non-positive amount was just refused by an update of a stored expense,
\* after an earlier update changed an amount
AmountRejectedWitness ==
    /\ call = "update_expense"
    /\ response = Error("invalid_amount")
    /\ \E i \in DOMAIN expenses :
          expenses[i].amount = 500 /\ expenses[i].category = "transport"

-----------------------------------------------------------------------------
(* Identity: adds, recurring adds, every addressing mode of delete, lists *)

Next ==
    \/ AddExpenseCalls({D_2024_02_29, D_2024_03_01}, {500}, {"food", "transport"},
                       {""}, {<<>>})
    \/ AddRecurringCalls({500}, {"food"}, {"monthly"}, {D_2024_02_29}, {""},
                         {<<>>}, {})
    \/ DeleteExpenseCalls(1..MaxId, {<<>>, <<1, 2>>}, {D_2024_02_29}, {"food"},
                          {FALSE, TRUE})
    \/ ListExpensesCalls({D_2024_02_29, D_2024_03_01}, {"food"})

Spec == Init /\ [][Next]_vars

\* C3: the ids handed out by add_expense and add_recurring_expense strictly
\* increase, deletions in between notwithstanding, and the id a successful
\* call returns is the one it was handed.
IdsStrictlyIncreasing ==
    /\ \A k, l \in DOMAIN issued : k < l => issued[k] < issued[l]
    /\ (call \in {"add_expense", "add_recurring_expense"} /\ response.status = "ok"
           => /\ issued # <<>>
              /\ Val(response.id) = issued[Len(issued)]
              /\ Val(response.id) \in DOMAIN expenses)

\* an insert has just returned an id although an earlier id is gone
IdAfterDeletionWitness ==
    /\ call = "add_recurring_expense"
    /\ response.status = "ok"
    /\ \E k \in 1..(Len(issued) - 1) : issued[k] \notin DOMAIN expenses

\* C5: an id removed by a successful delete_expense(id=X) is in no later
\* state of the ledger, and no later list_expenses returns a row with it.
DeletedNeverListed ==
    \A x \in deleted :
        /\ x \notin DOMAIN expenses
        /\ (call = "list_expenses" /\ response.status = "ok"
               => \A k \in DOMAIN Val(response.expenses) :
                      Val(response.expenses)[k].id # x)

\* after X was deleted by id a later insert happened, and a list returns rows
ListAfterDeleteWitness ==
    /\ call = "list_expenses"
    /\ response.status = "ok"
    /\ Val(response.expenses) # <<>>
    /\ \E x \in deleted : exp_seq > x

-----------------------------------------------------------------------------
(* Add then list: adds that differ in every field, lists over every range *)

ListDates == {D_2024_02_29, D_2024_2_5, D_2023_02_29}
ListAmounts == {0, 500, 700}
ListCategories == {"food", "misc"}
ListSubcategories == {"", "groceries"}
ListNotes == {<<>>, <<"lunch">>}

NextList ==
    \/ AddExpenseCalls(ListDates, ListAmounts, ListCategories, ListSubcategories,
                       ListNotes)
    \/ ListExpensesCalls({D_2024_02_29, D_2024_2_5}, {"food"})
    \/ DeleteExpenseCalls(1..MaxId, {}, {}, {}, {FALSE})

SpecList == Init /\ [][NextList]_vars

\* C4: when add_expense succeeds for a valid date, an amount > 0 and a
\* category of the taxonomy, the list of that single date, taken in the state
\* the add leaves, holds exactly one row with the returned id, and that row
\* carries the supplied date, amount, category, subcategory and note.
AddThenListReturnsRecord ==
    [][call' = "add_expense" /\ response'.status = "ok" =>
       \A date \in ListDates, amount \in ListAmounts, category \in ListCategories,
          subcategory \in ListSubcategories, note \in ListNotes :
            add_expense(date, amount, category, subcategory, note)
            => /\ validate_date(date) /\ amount > 0
               /\ category \in DOMAIN Categories
               /\ LET rows == ListRows(expenses', date, date, None)
                      mine == {k \in DOMAIN rows : rows[k].id = Val(response'.id)}
                  IN  /\ Cardinality(mine) = 1
                      /\ \A k \in mine :
                            rows[k] = [id |-> Val(response'.id), date |-> date,
                                       amount |-> amount, category |-> category,
                                       subcategory |-> subcategory,
                                       note |-> note]]_vars

\* an add has just succeeded for the date "2024-2-5", which another stored
\* expense carries too
AddedOnSharedDateWitness ==
    /\ call = "add_expense"
    /\ response.status = "ok"
    /\ expenses[Val(response.id)].date = D_2024_2_5
    /\ \E i \in DOMAIN expenses :
          i # Val(response.id) /\ expenses[i].date = D_2024_2_5

SetBudgetCalls(C, L, T) ==
    /\ bud_seq < MaxId
    /\ UNCHANGED request
    /\ \E category \in C, monthly_limit \in L, alert_threshold \in T :
             set_budget(category, monthly_limit, alert_threshold)

-----------------------------------------------------------------------------
(* Partial update: every combination of provided and unprovided fields, on *)
(* a ledger that also holds a budget and a recurring definition            *)

UpdDates == {D_2024_02_29}
UpdAmounts == {500}
UpdCategories == {"food"}
UpdSubcategories == {"groceries"}
UpdNotes == {<<"dinner">>}

NextUpdate ==
    \/ AddExpenseCalls({D_2024_02_29}, {500}, {"food"}, {"groceries"}, {<<"lunch">>})
    \/ AddRecurringCalls({500}, {"food"}, {"monthly"}, {D_2024_02_29},
                         {"groceries"}, {<<"rent">>}, {})
    \/ SetBudgetCalls({"food"}, {10000}, {80})
    \/ UpdateExpenseCalls(UpdDates, UpdAmounts, UpdCategories, UpdSubcategories,
                          UpdNotes)

SpecUpdate == Init /\ [][NextUpdate]_vars

\* C6: a successful update_expense leaves every unprovided field of the
\* targeted expense (date, amount, category, subcategory, note, creation
\* timestamp) as stored, and every other expense, every budget and every
\* recurring definition unchanged.  The step is compared with every call that
\* can have made it: no call that leaves a changed field unprovided makes it.
UpdateChangesOnlyProvided ==
    [][call' = "update_expense" /\ response'.status = "ok" =>
       LET id == Val(response'.about)
           old == expenses[id]
           new == expenses'[id]
       IN  /\ DOMAIN expenses' = DOMAIN expenses
           /\ \A i \in DOMAIN expenses \ {id} : expenses'[i] = expenses[i]
           /\ new.created_at = old.created_at
           /\ budgets' = budgets /\ recurring' = recurring
           /\ <<exp_seq', bud_seq', rec_seq'>> = <<exp_seq, bud_seq, rec_seq>>
           /\ \A date \in Opt(UpdDates), amount \in Opt(UpdAmounts),
                 category \in Opt(UpdCategories),
                 subcategory \in Opt(UpdSubcategories), note \in Opt(UpdNotes) :
                   \/ IsNone(date) /\ new.date # old.date
                   \/ IsNone(amount) /\ new.amount # old.amount
                   \/ IsNone(category) /\ new.category # old.category
                   \/ IsNone(subcategory) /\ new.subcategory # old.subcategory
                   \/ IsNone(note) /\ new.note # old.note
                   => ~update_expense(id, date, amount, category, subcategory,
                                      note)]_vars

\* an update has just rewritten the note of one of two expenses and kept the
\* rest, with a budget and a recurring definition in place
UpdatedWitness ==
    /\ call = "update_expense"
    /\ response.status = "ok"
    /\ budgets # {}
    /\ recurring # <<>>
    /\ Cardinality(DOMAIN expenses) = 2
    /\ \E i \in DOMAIN expenses :
          /\ i = Val(response.about)
          /\ expenses[i].note = <<"dinner">>
          /\ expenses[i].created_at > 0

-----------------------------------------------------------------------------
(* Delete addressing: every combination of id, ids, range ends, category   *)
(* and delete_all, on ledgers that differ in date and category             *)

NextDelete ==
    \/ AddExpenseCalls({D_2024_02_05, D_2024_03_01}, {500}, {"food", "transport"},
                       {""}, {<<>>})
    \/ ReceiveDelete(1..MaxId, {<<>>, <<2, 2, 3>>}, {D_2024_02_05, D_2023_02_29},
                     {D_2024_02_29}, {"food"}, {FALSE, TRUE})
    \/ ServeDelete

SpecDelete == Init /\ [][NextDelete]_vars

\* C7: delete_expense removes rows by one addressing mode only, in the order
\* id, non-empty ids, conditions (the date range when both ends are given and
\* the category, joined by AND): with id only that id can go, and a missing id
\* is an error that removes nothing; else with non-empty ids only rows in ids;
\* else only rows that match every condition.  Rows that stay are unchanged.
DeleteAddressing ==
    [][~IsNone(request) /\ Val(request).pending /\ call' = "delete_expense" =>
       LET a == Val(request)
           removed == DOMAIN expenses \ DOMAIN expenses'
           range_given == ~IsNone(a.start_date) /\ ~IsNone(a.end_date)
           by_conditions ==
               {i \in DOMAIN expenses :
                   /\ range_given =>
                         /\ TextLE(Val(a.start_date), expenses[i].date)
                         /\ TextLE(expenses[i].date, Val(a.end_date))
                   /\ ~IsNone(a.category) => expenses[i].category = Val(a.category)}
       IN  /\ \A i \in DOMAIN expenses' :
                 i \in DOMAIN expenses /\ expenses'[i] = expenses[i]
           /\ IF ~IsNone(a.id)
              THEN /\ removed \subseteq {Val(a.id)}
                   /\ Val(a.id) \notin DOMAIN expenses
                         => response'.status = "error" /\ removed = {}
              ELSE IF ~IsNone(a.ids) /\ Val(a.ids) # <<>>
              THEN removed \subseteq Range(Val(a.ids))
              ELSE IF range_given \/ ~IsNone(a.category)
              THEN removed \subseteq by_conditions
              ELSE TRUE]_vars

\* a call with a date range, a category and delete_all has just removed the
\* one expense that matches both conditions and left the other
DeleteByConditionsWitness ==
    /\ ~IsNone(request) /\ ~Val(request).pending
    /\ IsNone(Val(request).id) /\ IsNone(Val(request).ids)
    /\ Val(request).start_date = Some(D_2024_02_05)
    /\ Val(request).end_date = Some(D_2024_02_29)
    /\ Val(request).category = Some("food")
    /\ Val(request).delete_all
    /\ call = "delete_expense"
    /\ response.status = "ok"
    /\ response.deleted_count = Some(1)
    /\ \E i \in DOMAIN expenses :
          expenses[i].category = "food" /\ expenses[i].date = D_2024_03_01

\* C8: a delete_expense call with delete_all = True and any of id, ids,
\* start_date, end_date or category supplied never runs the delete-all branch.
DeleteAllOnlyAlone ==
    [][/\ ~IsNone(request) /\ Val(request).pending /\ call' = "delete_expense"
       /\ Val(request).delete_all
       /\ \/ ~IsNone(Val(request).id) \/ ~IsNone(Val(request).ids)
          \/ ~IsNone(Val(request).start_date) \/ ~IsNone(Val(request).end_date)
          \/ ~IsNone(Val(request).category)
       => response'.message # "deleted_all"]_vars

\* C18: delete_expense with delete_all = True and no other argument, on a
\* ledger that holds expenses, deletes them all and reports their number as
\* deleted_count; on an empty ledger it returns an error (so does a second
\* such call right after a successful one, which left the ledger empty).
DeleteAllReportsPriorCount ==
    [][/\ ~IsNone(request) /\ call' = "delete_expense"
       /\ Val(request).pending
       /\ Val(request).delete_all
       /\ IsNone(Val(request).id) /\ IsNone(Val(request).ids)
       /\ IsNone(Val(request).start_date) /\ IsNone(Val(request).end_date)
       /\ IsNone(Val(request).category)
       => IF DOMAIN expenses # {}
          THEN /\ response'.status = "ok"
               /\ DOMAIN expenses' = {}
               /\ response'.deleted_count = Some(Cardinality(DOMAIN expenses))
          ELSE /\ response'.status = "error"
               /\ expenses' = expenses]_vars

\* a delete_all call has just emptied a ledger of two expenses
DeletedAllWitness ==
    /\ ~IsNone(request)
    /\ ~Val(request).pending
    /\ Val(request).delete_all
    /\ IsNone(Val(request).id) /\ IsNone(Val(request).ids)
    /\ IsNone(Val(request).start_date) /\ IsNone(Val(request).end_date)
    /\ IsNone(Val(request).category)
    /\ call = "delete_expense"
    /\ response.message = "deleted_all"
    /\ response.deleted_count = Some(2)
    /\ DOMAIN expenses = {}

\* C19: delete_expense with a non-empty ids list and no id returns an error
\* and deletes nothing when no listed id exists; otherwise it deletes exactly
\* the listed ids that exist, leaves the other expenses as they were, and
\* reports the number of rows removed, duplicates and missing ids in the
\* list notwithstanding.
DeleteByIds ==
    [][/\ ~IsNone(request) /\ call' = "delete_expense"
       /\ Val(request).pending
       /\ IsNone(Val(request).id)
       /\ ~IsNone(Val(request).ids)
       /\ Val(Val(request).ids) # <<>>
       => LET ids == Val(Val(request).ids)
              existing == {ids[k] : k \in DOMAIN ids} \cap DOMAIN expenses
          IN  IF existing = {}
              THEN response'.status = "error" /\ expenses' = expenses
              ELSE /\ response'.status = "ok"
                   /\ DOMAIN expenses' = DOMAIN expenses \ existing
                   /\ \A i \in DOMAIN expenses' : expenses'[i] = expenses[i]
                   /\ response'.deleted_count = Some(Cardinality(existing))]_vars

\* a call with ids [2, 2, 3] has removed expense 2, reported one row, and
\* left expense 1
DeletedByIdsWitness ==
    /\ ~IsNone(request)
    /\ ~Val(request).pending
    /\ IsNone(Val(request).id)
    /\ Val(request).ids = Some(<<2, 2, 3>>)
    /\ call = "delete_expense"
    /\ response.status = "ok"
    /\ response.deleted_count = Some(1)
    /\ DOMAIN expenses = {1}

-----------------------------------------------------------------------------
(* Budget alerts of the mutating calls: one budget, expenses below and at  *)
(* the threshold, updates of the amount                                    *)

NextBudget ==
    \/ SetBudgetCalls({"food"}, {10000}, {80})
    \/ AddExpenseCalls({D_2024_02_29}, {4000, 8000}, {"food", "transport"},
                       {""}, {<<>>})
    \/ UpdateExpenseCalls({D_2024_03_01}, {8000}, {"food"}, {}, {})

SpecBudget == Init /\ [][NextBudget]_vars

-----------------------------------------------------------------------------
(* The threshold verdict: budgets and expenses around the boundaries       *)

YM_2024_02 == Prefix(D_2024_02_29, 7)

NextVerdict ==
    \/ SetBudgetCalls({"food"}, {900, 10000}, {80, 90})
    \/ AddExpenseCalls({D_2024_02_29}, {810, 7999, 8000, 9999, 10000}, {"food"},
                       {""}, {<<>>})
    \/ get_budget_status(YM_2024_02) /\ UNCHANGED request

SpecVerdict == Init /\ [][NextVerdict]_vars

\* C10: the verdict is CRITICAL iff spent / limit * 100 >= 100, WARNING iff
\* threshold * 100 <= spent / limit * 100 < 100, and OK otherwise, in the
\* alert of add_expense (no alert for OK) and in alert_status of
\* get_budget_status (exceeded, warning, ok).
VerdictByThreshold ==
    LET Verdict(spent, limit, threshold) ==
            IF spent * 100 >= 100 * limit THEN "CRITICAL"
            ELSE IF spent * 100 >= threshold * limit THEN "WARNING"
            ELSE "OK"
    IN  /\ call = "add_expense" /\ response.status = "ok" =>
              LET new == expenses[Val(response.id)]
                  year_month == Prefix(new.date, 7)
                  spent == Spent(expenses, new.category, MonthStart(year_month),
                                 MonthEnd(year_month))
              IN  \A b \in budgets :
                     b.category = new.category =>
                        LET verdict == Verdict(spent, b.monthly_limit,
                                               b.alert_threshold)
                        IN  IF verdict = "OK" THEN IsNone(response.budget_alert)
                            ELSE /\ ~IsNone(response.budget_alert)
                                 /\ Val(response.budget_alert).alert_level = verdict
        /\ call = "get_budget_status" /\ response.message = "status" =>
              \A s \in Val(response.budgets) :
                 \A b \in budgets :
                    b.category = s.category =>
                       LET verdict == Verdict(s.spent, s.limit, b.alert_threshold)
                       IN  s.alert_status =
                              CASE verdict = "CRITICAL" -> "exceeded"
                                [] verdict = "WARNING" -> "warning"
                                [] OTHER -> "ok"

-----------------------------------------------------------------------------
(* The alert of an insertion: a budget, and expenses of two months and two *)
(* categories, with dates written with and without zero padding            *)

NextInsert ==
    \/ SetBudgetCalls({"food"}, {10000}, {80})
    \/ AddExpenseCalls({D_2024_02_05, D_2024_2_5, D_2024_03_01}, {8000},
                       {"food", "transport"}, {""}, {<<>>})
    \/ AddRecurringCalls({8000}, {"food"}, {"monthly"}, {D_2024_02_05, D_2024_2_5},
                         {""}, {<<>>}, {None})

SpecInsert == Init /\ [][NextInsert]_vars

\* C11: after a successful add_expense or add_recurring_expense, if the
\* category of the new expense has a budget the response carries the verdict
\* over the total of that category in the calendar month of the expense's
\* date, the new expense included (no alert object when the verdict is below
\* the threshold); without a budget it carries no alert.
InsertAlertOverCalendarMonth ==
    call \in {"add_expense", "add_recurring_expense"} /\ response.status = "ok" =>
        LET new == expenses[Val(response.id)]
            MonthNumber(d) ==
                IF d[7] = Dash THEN FieldValue(SubSeq(d, 6, 6))
                ELSE FieldValue(SubSeq(d, 6, 7))
            SameMonth(d1, d2) ==
                YearOf(d1) = YearOf(d2) /\ MonthNumber(d1) = MonthNumber(d2)
            spent == SumAmounts(expenses,
                        {i \in DOMAIN expenses :
                            /\ expenses[i].category = new.category
                            /\ SameMonth(expenses[i].date, new.date)})
            rows == {b \in budgets : b.category = new.category}
        IN  IF rows = {} THEN IsNone(response.budget_alert)
            ELSE \A b \in rows :
                    LET level == AlertLevel(spent, b.monthly_limit, b.alert_threshold)
                    IN  IF level = "NONE" THEN IsNone(response.budget_alert)
                        ELSE /\ ~IsNone(response.budget_alert)
                             /\ Val(response.budget_alert).alert_level = level
                             /\ Val(response.budget_alert).spent = spent

-----------------------------------------------------------------------------
(* Concurrent callers: add_expense commits its INSERT and reads the spend  *)
(* back afterwards, outside any transaction; calls of other callers run in *)
(* between                                                                 *)

\* the first half of add_expense, up to c.commit(); `total` records the
\* month total of the category right after the insert
add_expense_insert(date, amount, category, subcategory, note) ==
    /\ IF IsNone(request) THEN TRUE ELSE ~Val(request).pending
    /\ validate_date(date)
    /\ validate_amount(amount)
    /\ validate_category(category, subcategory)
    /\ LET expense_id == NextRowid(expenses, exp_seq)
           row == [date |-> date, amount |-> amount, category |-> category,
                   subcategory |-> subcategory, note |-> note, created_at |-> Now]
           after == Insert(expenses, expense_id, row)
           year_month == Prefix(date, 7)
       IN  /\ expenses' = after
           /\ exp_seq' = IF expense_id > exp_seq THEN expense_id ELSE exp_seq
           /\ issued' = Append(issued, expense_id)
           /\ request' = Some([tool |-> "add_expense", id |-> expense_id,
                               date |-> date, category |-> category,
                               total |-> Spent(after, category,
                                               MonthStart(year_month),
                                               MonthEnd(year_month)),
                               pending |-> TRUE])
    /\ UNCHANGED <<budgets, bud_seq, recurring, rec_seq, deleted, call, response>>

\* the second half: the budget row and the SUM are read from the store as it
\* is now, and the response is built
add_expense_read_back ==
    /\ ~IsNone(request)
    /\ Val(request).pending
    /\ Val(request).tool = "add_expense"
    /\ call' = "add_expense"
    /\ response' = [Result("ok", "added") EXCEPT
                       !.id = Some(Val(request).id),
                       !.budget_alert = BudgetAlert(expenses, budgets,
                                                    Val(request).category,
                                                    Val(request).date)]
    /\ request' = Some([Val(request) EXCEPT !.pending = FALSE])
    /\ UNCHANGED <<expenses, exp_seq, budgets, bud_seq, recurring, rec_seq,
                   issued, deleted>>

NextConcurrent ==
    \/ SetBudgetCalls({"food"}, {10000}, {80})
    \/ /\ exp_seq < MaxId
       /\ \E amount \in {4000, 8000} :
             add_expense_insert(D_2024_02_29, amount, "food", "", <<>>)
    \/ add_expense_read_back
    \/ AddExpenseCalls({D_2024_02_29}, {8000}, {"food"}, {""}, {<<>>})
    \/ UpdateExpenseCalls({}, {8000}, {}, {}, {})
    \/ DeleteExpenseCalls(1..MaxId, {}, {}, {}, {FALSE})

SpecConcurrent == Init /\ [][NextConcurrent]_vars

\* C12: the spend figure behind the alert an add_expense call returns is the
\* month total of the category as it was immediately after the call's own
\* insert, whatever other callers do in between.
AlertOverOwnInsert ==
    /\ ~IsNone(request)
    /\ ~Val(request).pending
    /\ call = "add_expense"
    /\ response.id = Some(Val(request).id)
    => \A b \in budgets :
          b.category = Val(request).category =>
             LET level == AlertLevel(Val(request).total, b.monthly_limit,
                                     b.alert_threshold)
             IN  IF level = "NONE" THEN IsNone(response.budget_alert)
                 ELSE /\ ~IsNone(response.budget_alert)
                      /\ Val(response.budget_alert).alert_level = level
                      /\ Val(response.budget_alert).spent = Val(request).total

-----------------------------------------------------------------------------
(* Recurring definitions: calls with valid and invalid arguments, listing, *)
(* deactivation, and the other writers of the ledger                       *)

ListRecurringCalls ==
    /\ UNCHANGED request
    /\ \E active_only \in BOOLEAN : list_recurring_expenses(active_only)

DeactivateCalls ==
    /\ UNCHANGED request
    /\ \E id \in 1..MaxId : deactivate_recurring_expense(id)

NextRecurring ==
    \/ AddRecurringCalls({500, 0}, {"food", "unknown"}, {"monthly", "hourly"},
                         {D_2024_02_29, D_2023_02_29}, {"", "fuel"}, {<<>>},
                         {D_2024_03_01, D_2023_02_29})
    \/ AddExpenseCalls({D_2024_02_29}, {500}, {"food"}, {""}, {<<>>})
    \/ DeleteExpenseCalls(1..MaxId, {}, {}, {}, {FALSE})
    \/ ListRecurringCalls
    \/ DeactivateCalls

SpecRecurring == Init /\ [][NextRecurring]_vars

\* C13: a successful add_recurring_expense creates exactly one definition,
\* active and with last_applied = start_date, whose amount, start date, end
\* date, frequency (daily, weekly, monthly or yearly) and category pass
\* validation, and exactly one expense, dated start_date with the amount,
\* category and subcategory of the definition; a rejected call changes neither
\* table.
RecurringCreatesOneOfEach ==
    [][call' = "add_recurring_expense" =>
          IF response'.status = "ok"
          THEN LET rid == Val(response'.recurring_id)
                   eid == Val(response'.id)
                   d == recurring'[rid]
                   e == expenses'[eid]
               IN  /\ rid \notin DOMAIN recurring
                   /\ DOMAIN recurring' = DOMAIN recurring \cup {rid}
                   /\ \A i \in DOMAIN recurring : recurring'[i] = recurring[i]
                   /\ eid \notin DOMAIN expenses
                   /\ DOMAIN expenses' = DOMAIN expenses \cup {eid}
                   /\ \A i \in DOMAIN expenses : expenses'[i] = expenses[i]
                   /\ d.active = 1
                   /\ d.last_applied = d.start_date
                   /\ d.amount > 0
                   /\ validate_date(d.start_date)
                   /\ IsNone(d.end_date) \/ validate_date(Val(d.end_date))
                   /\ d.frequency \in {"daily", "weekly", "monthly", "yearly"}
                   /\ d.category \in DOMAIN Categories
                   /\ d.subcategory = "" \/ d.subcategory \in Categories[d.category]
                   /\ e.date = d.start_date
                   /\ e.amount = d.amount
                   /\ e.category = d.category
                   /\ e.subcategory = d.subcategory
          ELSE recurring' = recurring /\ expenses' = expenses]_vars

\* a second definition and its first expense have just been created
TwoDefinitionsWitness ==
    /\ call = "add_recurring_expense"
    /\ response.status = "ok"
    /\ response.recurring_id = Some(2)
    /\ Len(recurring) = 2
    /\ recurring[2].last_applied = D_2024_02_29
    /\ \E i \in DOMAIN expenses : expenses[i].date = D_2024_02_29

\* C14: a definition is never removed and never becomes active again; it is
\* active from its creation, and turns inactive exactly by a successful
\* deactivate_recurring_expense of its id; list_recurring_expenses lists the
\* active definitions when active_only is true and all of them otherwise.
ActiveOneWay ==
    [][/\ \A id \in DOMAIN recurring :
             /\ id \in DOMAIN recurring'
             /\ recurring'[id].active = 1 => recurring[id].active = 1
             /\ recurring[id].active = 1 /\ recurring'[id].active # 1 =>
                   /\ call' = "deactivate_recurring_expense"
                   /\ response'.status = "ok"
                   /\ response'.about = Some(id)
       /\ \A id \in DOMAIN recurring' \ DOMAIN recurring : recurring'[id].active = 1
       /\ call' = "deactivate_recurring_expense" /\ response'.status = "ok" =>
             recurring'[Val(response'.about)].active = 0
       /\ \A active_only \in BOOLEAN :
             list_recurring_expenses(active_only) =>
                LET listed == Val(response'.recurring_expenses)
                IN  {listed[k].id : k \in DOMAIN listed} =
                       IF active_only
                       THEN {id \in DOMAIN recurring : recurring[id].active = 1}
                       ELSE DOMAIN recurring]_vars

\* of two definitions one has been deactivated, and a listing shows
\* only the other
DeactivatedNotListedWitness ==
    /\ call = "list_recurring_expenses"
    /\ Len(recurring) = 2
    /\ recurring[1].active = 0
    /\ recurring[2].active = 1
    /\ Len(Val(response.recurring_expenses)) = 1
    /\ Val(response.recurring_expenses)[1].id = 2

-----------------------------------------------------------------------------
(* The budget store: set_budget with valid and invalid limits, thresholds  *)
(* and categories, and delete_budget                                       *)

DeleteBudgetCalls(C) ==
    /\ UNCHANGED request
    /\ \E category \in C : delete_budget(category)

BudgetCategories == {"food", "transport", "unknown"}
BudgetLimits == {0, 5000, 10000}
BudgetThresholds == {0, 50, 100, 101}

NextBudgets ==
    \/ SetBudgetCalls(BudgetCategories, BudgetLimits, BudgetThresholds)
    \/ DeleteBudgetCalls({"food"})

SpecBudgets == Init /\ [][NextBudgets]_vars

\* C16: in every state there is at most one budget per category, each with
\* limit > 0 and threshold in (0, 1] (1..100 hundredths); a successful
\* set_budget leaves the category with the limit and the threshold of the
\* call and the budgets of the other categories as they were.
OneBudgetPerCategory ==
    [][/\ \A b1 \in budgets', b2 \in budgets' :
             b1.category = b2.category => b1 = b2
       /\ \A b \in budgets' :
             /\ b.monthly_limit > 0
             /\ 0 < b.alert_threshold /\ b.alert_threshold <= 100
       /\ \A category \in BudgetCategories, monthly_limit \in BudgetLimits,
             alert_threshold \in BudgetThresholds :
                /\ set_budget(category, monthly_limit, alert_threshold)
                /\ response'.status = "ok"
                => /\ \E b \in budgets' :
                         /\ b.category = category
                         /\ b.monthly_limit = monthly_limit
                         /\ b.alert_threshold = alert_threshold
                   /\ {b \in budgets' : b.category # category}
                         = {b \in budgets : b.category # category}]_vars

\* the budget of a category has just been set a second time, with another
\* limit and another threshold
BudgetOverwrittenWitness ==
    /\ call = "set_budget"
    /\ response.status = "ok"
    /\ bud_seq = 2
    /\ \E b \in budgets :
          /\ b.id = 2 /\ b.category = "food"
          /\ b.monthly_limit = 5000 /\ b.alert_threshold = 100
    /\ Cardinality(budgets) = 1

-----------------------------------------------------------------------------
(* update_expense with every combination of absent, valid and invalid      *)
(* fields, on ids that exist and ids that do not                           *)

\* an update_expense call arrives with its arguments
ReceiveUpdate(I, D, A, C, S, N) ==
    /\ IF IsNone(request) THEN TRUE ELSE ~Val(request).pending
    /\ \E id \in I, date \in Opt(D), amount \in Opt(A), category \in Opt(C),
          subcategory \in Opt(S), note \in Opt(N) :
             request' = Some([id |-> id, date |-> date, amount |-> amount,
                              category |-> category, subcategory |-> subcategory,
                              note |-> note, pending |-> TRUE])
    /\ UNCHANGED <<expenses, exp_seq, budgets, bud_seq, recurring, rec_seq,
                   call, response, issued, deleted>>

\* the call received is served: update_expense runs with its arguments
ServeUpdate ==
    /\ ~IsNone(request)
    /\ Val(request).pending
    /\ LET a == Val(request)
       IN  update_expense(a.id, a.date, a.amount, a.category, a.subcategory, a.note)
    /\ request' = Some([Val(request) EXCEPT !.pending = FALSE])

NextUpdateErrors ==
    \/ AddExpenseCalls({D_2024_02_29}, {500}, {"food"}, {""}, {<<>>})
    \/ ReceiveUpdate(1..MaxId, {D_2024_02_29, D_2023_02_29}, {700, 0},
                     {"food", "unknown"}, {"fuel"}, {<<>>})
    \/ ServeUpdate

SpecUpdateErrors == Init /\ [][NextUpdateErrors]_vars

\* C17: update_expense returns the not-found error for an id that does not
\* exist; for an id that exists it returns a validation error when a provided
\* date, amount or category is invalid or when no field is provided, and
\* succeeds otherwise, whatever the fields not provided are; a failing call
\* changes nothing in the ledger.
UpdateFailures ==
    [][~IsNone(request) /\ Val(request).pending /\ call' = "update_expense" =>
          LET a == Val(request)
              invalid ==
                  \/ ~IsNone(a.date) /\ ~validate_date(Val(a.date))
                  \/ ~IsNone(a.amount) /\ Val(a.amount) <= 0
                  \/ /\ ~IsNone(a.category)
                     /\ \/ Val(a.category) \notin DOMAIN Categories
                        \/ /\ ~IsNone(a.subcategory)
                           /\ Val(a.subcategory) # ""
                           /\ Val(a.subcategory) \notin Categories[Val(a.category)]
              nothing == /\ IsNone(a.date) /\ IsNone(a.amount) /\ IsNone(a.category)
                         /\ IsNone(a.subcategory) /\ IsNone(a.note)
          IN  /\ response'.status = "error" => expenses' = expenses
              /\ IF a.id \notin DOMAIN expenses
                 THEN response' = NotFound(a.id)
                 ELSE IF invalid
                 THEN /\ response'.status = "error"
                      /\ response'.message \in {"invalid_date", "invalid_amount",
                                                "invalid_category"}
                 ELSE IF nothing
                 THEN response' = Error("no_fields")
                 ELSE response'.status = "ok"]_vars

\* a call that gives an invalid date together with a valid amount for an
\* expense that exists has been refused, and the expense keeps its amount
UpdateRefusedWitness ==
    /\ ~IsNone(request)
    /\ ~Val(request).pending
    /\ Val(request).id \in DOMAIN expenses
    /\ Val(request).date = Some(D_2023_02_29)
    /\ Val(request).amount = Some(700)
    /\ call = "update_expense"
    /\ response = Error("invalid_date")
    /\ expenses[Val(request).id].amount = 500
    /\ expenses[Val(request).id].date = D_2024_02_29

-----------------------------------------------------------------------------
(* The month window, for the year-month keys the three places can receive: *)
(* date[:7] of a valid date in add_expense and add_recurring_expense, a    *)
(* key strptime accepts as %Y-%m in get_budget_status                      *)

\* start and end of the window, as each of the three places builds them
MonthWindow(year_month) ==
    [start_date |-> MonthStart(year_month), end_date |-> MonthEnd(year_month)]

WindowYears == {1900, 2000, 2023, 2024}

\* "YYYY-MM", or "YYYY-M" when the month is written without zero padding
YearMonthText(year, month, padded) ==
    <<48 + (year \div 1000), 48 + ((year \div 100) % 10),
      48 + ((year \div 10) % 10), 48 + (year % 10), Dash>>
    \o (IF padded \/ month >= 10 THEN <<48 + (month \div 10), 48 + (month % 10)>>
        ELSE <<48 + month>>)

\* a call is received whose date (first of the month) or year-month names
\* month `month` of year `year`
InitWindow ==
    /\ expenses = <<>> /\ exp_seq = 0
    /\ budgets = {} /\ bud_seq = 0
    /\ recurring = <<>> /\ rec_seq = 0
    /\ call = "init"
    /\ response = Result("ok", "init")
    /\ issued = <<>>
    /\ deleted = {}
    /\ \E tool \in {"add_expense", "add_recurring_expense", "get_budget_status"},
          year \in WindowYears, month \in 1..12, padded \in BOOLEAN :
             LET key == YearMonthText(year, month, padded)
             IN  request = Some([tool |-> tool, year |-> year, month |-> month,
                                 text |-> IF tool = "get_budget_status" THEN key
                                          ELSE key \o <<Dash, 48, 49>>,
                                 pending |-> TRUE])

\* the place computes its window: from date[:7], or from year_month itself
ComputeWindow ==
    /\ ~IsNone(request)
    /\ Val(request).pending
    /\ LET a == Val(request)
           valid == IF a.tool = "get_budget_status" THEN ValidYearMonth(a.text)
                    ELSE validate_date(a.text)
           year_month == IF a.tool = "get_budget_status" THEN a.text
                         ELSE Prefix(a.text, 7)
       IN  /\ valid
           /\ call' = a.tool
           /\ response' = [Result("ok", "window") EXCEPT
                              !.about = Some(MonthWindow(year_month))]
    /\ request' = Some([Val(request) EXCEPT !.pending = FALSE])
    /\ UNCHANGED <<expenses, exp_seq, budgets, bud_seq, recurring, rec_seq,
                   issued, deleted>>

SpecWindow == InitWindow /\ [][ComputeWindow]_vars

\* C20: the window of a month starts on day 01 and ends on day 29 for
\* February of a leap year, 28 for any other February, 30 for April, June,
\* September and November, 31 otherwise, in each of the three places.
WindowLastDay ==
    ~IsNone(request) /\ ~Val(request).pending /\ response.message = "window" =>
        LET a == Val(request)
            window == Val(response.about)
            leap == a.year % 4 = 0 /\ (a.year % 100 # 0 \/ a.year % 400 = 0)
            last == IF a.month = 2 THEN (IF leap THEN 29 ELSE 28)
                    ELSE IF a.month \in {4, 6, 9, 11} THEN 30
                    ELSE 31
            DayOf(d) == FieldValue(SubSeq(d, Len(d) - 1, Len(d)))
        IN  /\ DayOf(window.start_date) = 1
            /\ DayOf(window.end_date) = last

-----------------------------------------------------------------------------
(* Summaries: ledgers of expenses in two categories, dated with and without *)
(* zero padding, summarized over ranges with and without a category filter *)

\* a summarize call arrives with its arguments
ReceiveSummarize(D, E, C) ==
    /\ IF IsNone(request) THEN TRUE ELSE ~Val(request).pending
    /\ \E start_date \in D, end_date \in E, category \in Opt(C) :
          request' = Some([tool |-> "summarize", start_date |-> start_date,
                           end_date |-> end_date, category |-> category,
                           pending |-> TRUE])
    /\ UNCHANGED <<expenses, exp_seq, budgets, bud_seq, recurring, rec_seq,
                   call, response, issued, deleted>>

\* the call received is served
ServeSummarize ==
    /\ ~IsNone(request)
    /\ Val(request).pending
    /\ Val(request).tool = "summarize"
    /\ summarize(Val(request).start_date, Val(request).end_date,
                 Val(request).category)
    /\ request' = Some([Val(request) EXCEPT !.pending = FALSE])

NextSummarize ==
    \/ /\ IF IsNone(request) THEN TRUE ELSE ~Val(request).pending
       /\ AddExpenseCalls({D_2024_02_05, D_2024_2_5, D_2024_03_01}, {500, 700},
                          {"food", "transport"}, {""}, {<<>>})
    \/ ReceiveSummarize({D_2024_02_05, D_2023_02_29}, {D_2024_02_29, D_2024_03_01},
                        {"food", ""})
    \/ ServeSummarize

SpecSummarize == Init /\ [][NextSummarize]_vars

\* C21: the per-category totals of a summary add up to its grand total, and
\* the grand total is the sum of the amounts of exactly the expenses whose
\* date lies between start_date and end_date, both included (and whose
\* category is the filter's, when one is given).
SummaryTotals ==
    /\ ~IsNone(request)
    /\ Val(request).tool = "summarize"
    /\ ~Val(request).pending
    /\ call = "summarize"
    /\ response.status = "ok"
    => LET a == Val(request)
           Ordinal(d) ==
               LET ml == IF d[7] = Dash THEN 1 ELSE 2
               IN  10000 * YearOf(d) + 100 * FieldValue(SubSeq(d, 6, 5 + ml))
                       + FieldValue(SubSeq(d, 7 + ml, Len(d)))
           inside == {i \in DOMAIN expenses :
                        /\ Ordinal(a.start_date) <= Ordinal(expenses[i].date)
                        /\ Ordinal(expenses[i].date) <= Ordinal(a.end_date)
                        /\ (~IsNone(a.category) /\ Val(a.category) # ""
                               => expenses[i].category = Val(a.category))}
           summary == Val(response.categories)
       IN  /\ SumTotals(summary, Len(summary)) = Val(response.total_amount)
           /\ Val(response.total_amount) = SumAmounts(expenses, inside)

-----------------------------------------------------------------------------
(* Every tool, called with valid and with invalid arguments, on stores     *)
(* that hold expenses, a budget and recurring definitions; delete_expense  *)
(* is called with no criteria or with criteria that match no expense       *)

ErrDates == {D_2024_02_29, D_2023_02_29}

ReadCalls ==
    /\ UNCHANGED request
    /\ \/ \E start_date \in ErrDates :
             \/ list_expenses(start_date, D_2024_02_29, None)
             \/ summarize(start_date, D_2024_02_29, Some("food"))
       \/ get_top_expenses(D_2024_02_29, D_2024_02_29, 1)
       \/ get_category_breakdown(D_2024_02_29, D_2024_02_29)
       \/ get_monthly_trends(2024, None)
       \/ \E year_month \in {YM_2024_02, Prefix(D_2024_02_29, 5)} :
             get_budget_status(year_month)
       \/ list_budgets
       \/ list_recurring_expenses(TRUE)

NextErrors ==
    \/ AddExpenseCalls(ErrDates, {500}, {"food", "unknown"}, {""}, {<<>>})
    \/ UpdateExpenseCalls({}, {0, 500}, {}, {}, {})
    \/ DeleteExpenseCalls({MaxId + 1}, {<<MaxId + 1>>}, {}, {"transport"}, {FALSE})
    \/ SetBudgetCalls({"food"}, {0, 1000}, {80, 101})
    \/ DeleteBudgetCalls({"food", "transport"})
    \/ AddRecurringCalls({0, 500}, {"food"}, {"monthly", "hourly"}, {D_2024_02_29},
                         {""}, {<<>>}, {})
    \/ DeactivateCalls
    \/ ReadCalls

SpecErrors == Init /\ [][NextErrors]_vars

ReadTools ==
    {"list_expenses", "summarize", "get_top_expenses", "get_monthly_trends",
     "get_category_breakdown", "get_budget_status", "list_budgets",
     "list_recurring_expenses"}

====
